---------------------------- MODULE Spec2Model ----------------------------
(***************************************************************************)
(* A model of itk::PhaseCorrelationOperator                                *)
(* (include/itkPhaseCorrelationOperator.hxx): the band-pass configuration, *)
(* the derivation of the output geometry and metadata, and the per-sample  *)
(* kernel evaluated by worker threads over disjoint output sub-regions.    *)
(*                                                                         *)
(* PixelType values are kept as exact rationals <<n, d>> (d > 0, lowest    *)
(* terms).  Only std::sqrt is rounded: to a multiple of 1/SqrtScale, as    *)
(* the floating-point type rounds it to a representable value.  A division *)
(* by zero yields NaN or Inf, as IEEE arithmetic does.  Control-point      *)
(* tuples handed to the setter are tuples of finite numbers.               *)
(***************************************************************************)
EXTENDS Integers, Sequences, FiniteSets, TLC

VARIABLES
    m_BandPassControlPoints, \* the stored control points, [0..3 -> rational]
    m_MTime,                 \* the modification time Modified() advances
    lastCall,                \* the SetBandPassControlPoints call made: its argument
                             \* and whether it threw
    fixed,                   \* input 0: geometry and metadata, or NoImage
    moving,                  \* input 1: geometry and metadata, or NoImage
    output,                  \* the output's geometry and metadata
    pc,                      \* what the pipeline has done last
    ind,                     \* the coordinate a single kernel evaluation is at
    maxDist,                 \* the control-point scale of a single evaluation
    distFrom0,               \* the radius of a single evaluation
    factor,                  \* the band-pass factor of a single evaluation
    fixedBuf,                \* the fixed input's samples, by coordinate
    movingBuf,               \* the moving input's samples, by coordinate
    outBuf,                  \* the output's samples, by coordinate
    writeCount,              \* how often each output coordinate was written
    threads                  \* each worker's sub-region and scan position

vars == <<m_BandPassControlPoints, m_MTime, lastCall, fixed, moving, output, pc,
          ind, maxDist, distFrom0, factor,
          fixedBuf, movingBuf, outBuf, writeCount, threads>>

configVars == <<m_BandPassControlPoints, m_MTime, lastCall>>
imageVars  == <<fixed, moving, output, pc>>
pixelVars  == <<ind, maxDist, distFrom0, factor>>
bufferVars == <<fixedBuf, movingBuf, outBuf, writeCount, threads>>

---------------------------------------------------------------------------
(* Bounds of the model.                                                    *)

GridDen == 4          \* control points offered to the setter are n/GridDen
MaxSize == 3          \* largest extent of an input image per axis
MaxMeta == 3          \* largest FFT_Actual_RealImage_Size value
MaxExtent == 5        \* largest output extent per axis of a single evaluation
MaxScale == 2         \* largest maxDist of a band-pass factor evaluation
MaxWidth == 2         \* largest extent on axis 0 of a threaded evaluation
MaxHeight == 2        \* largest extent on axis 1 of a threaded evaluation
SqrtScale == 10       \* std::sqrt is rounded to a multiple of 1/SqrtScale

VImageDimension == 2

---------------------------------------------------------------------------
(* Exact rationals.                                                        *)

Abs(x) == IF x < 0 THEN -x ELSE x

RECURSIVE GCD(_, _)
GCD(a, b) == IF b = 0 THEN a ELSE GCD(b, a % b)

R(n, d) ==
    LET g == GCD(Abs(n), Abs(d))
        s == IF d < 0 THEN -1 ELSE 1
    IN  IF g = 0 THEN <<0, 0>> ELSE <<(s * n) \div g, (s * d) \div g>>

Zero == <<0, 1>>
One  == <<1, 1>>
NaN  == <<0, 0>>      \* 0/0
Inf  == <<1, 0>>      \* x/0, x # 0

RInt(n)    == <<n, 1>>
RAdd(a, b) == R(a[1] * b[2] + b[1] * a[2], a[2] * b[2])
RSub(a, b) == R(a[1] * b[2] - b[1] * a[2], a[2] * b[2])
RMul(a, b) == R(a[1] * b[1], a[2] * b[2])
RLt(a, b)  == a[1] * b[2] < b[1] * a[2]
RLe(a, b)  == a[1] * b[2] <= b[1] * a[2]
RGe(a, b)  == RLe(b, a)
RGt(a, b)  == RLt(b, a)
\* x / y of the floating-point type: 0/0 is NaN, x/0 is infinite.
RDiv(a, b) ==
    IF b = Zero THEN (IF a = Zero THEN NaN ELSE Inf)
    ELSE R(a[1] * b[2], a[2] * b[1])

\* The largest k with k * k <= x, given lo * lo <= x < hi * hi.
RECURSIVE ISqrtBetween(_, _, _)
ISqrtBetween(x, lo, hi) ==
    IF hi - lo <= 1 THEN lo
    ELSE LET mid == (lo + hi) \div 2
         IN  IF mid * mid <= x THEN ISqrtBetween(x, mid, hi)
             ELSE ISqrtBetween(x, lo, mid)
\* std::sqrt of a non-negative value, rounded down to a multiple of 1/SqrtScale.
RSqrt(a) ==
    LET x == (a[1] * SqrtScale * SqrtScale) \div a[2]
    IN  R(ISqrtBetween(x, 0, x + 1), SqrtScale)

---------------------------------------------------------------------------
(* The band-pass configuration.                                            *)

BandPassPointsType(values) == [0..3 -> values]

\* The constructor's control points: 0.05, 0.1, 0.5, 0.9.
DefaultBandPassControlPoints ==
    [i \in 0..3 |-> CASE i = 0 -> R(1, 20)
                      [] i = 1 -> R(1, 10)
                      [] i = 2 -> R(1, 2)
                      [] i = 3 -> R(9, 10)]

ControlPointValues == {R(n, GridDen) : n \in (-1)..(GridDen + 1)}
OfferedPoints == BandPassPointsType(ControlPointValues) \cup {DefaultBandPassControlPoints}

\* The checks with control point 0 allowed to equal control point 1.
FirstFailedCheckWeakOrder(points) ==
    CASE RLt(points[0], Zero)       -> 1
      [] RGt(points[3], One)        -> 2
      [] RGt(points[0], points[1])  -> 3
      [] RGe(points[1], points[2])  -> 4
      [] RGe(points[2], points[3])  -> 5
      [] OTHER                      -> 0

\* The setter's checks, in order: the number of the itkExceptionMacro reached
\* (1..5), or 0 when none is.
FirstFailedCheck(points) ==
    CASE RLt(points[0], Zero)       -> 1
      [] RGt(points[3], One)        -> 2
      [] RGe(points[0], points[1])  -> 3
      [] RGe(points[1], points[2])  -> 4
      [] RGe(points[2], points[3])  -> 5
      [] OTHER                      -> 0

\* A setter that marks the object modified on every successful call.
SetOutcomeAlwaysModified(current, mtime, points) ==
    IF FirstFailedCheck(points) # 0
    THEN [points |-> current, mtime |-> mtime, threw |-> TRUE]
    ELSE [points |-> points, mtime |-> mtime + 1, threw |-> FALSE]

\* What SetBandPassControlPoints(points) leaves behind: the stored points, the
\* modification time, and whether it threw.
SetOutcome(current, mtime, points) ==
    IF current # points
    THEN IF FirstFailedCheck(points) # 0
         THEN [points |-> current, mtime |-> mtime, threw |-> TRUE]
         ELSE [points |-> points, mtime |-> mtime + 1, threw |-> FALSE]
    ELSE [points |-> current, mtime |-> mtime, threw |-> FALSE]

\* The control points an object can hold: the constructor's, or a tuple the
\* setter has accepted.
StoredPoints ==
    {DefaultBandPassControlPoints}
    \cup {points \in OfferedPoints : FirstFailedCheck(points) = 0}

NoCall == [called |-> FALSE, points |-> DefaultBandPassControlPoints, threw |-> FALSE]

ConfigInit ==
    /\ m_BandPassControlPoints = DefaultBandPassControlPoints
    /\ m_MTime = 0
    /\ lastCall = NoCall

SetBandPassControlPoints(points) ==
    /\ ~lastCall.called
    /\ LET o == SetOutcome(m_BandPassControlPoints, m_MTime, points)
       IN  /\ m_BandPassControlPoints' = o.points
           /\ m_MTime' = o.mtime
           /\ lastCall' = [called |-> TRUE, points |-> points, threw |-> o.threw]


---------------------------------------------------------------------------
(* Images: the geometry and the metadata dictionary of an image.           *)

Axes == 0..(VImageDimension - 1)

\* An image's FFT_Actual_RealImage_Size entry: <<v>>, or <<>> when the
\* dictionary holds none.
NoValue == <<>>

SpacingValues == {1, 2}
IndexValues == {0, 1}

\* The output a newly constructed filter owns: an empty region, unit spacing,
\* an empty dictionary.
EmptyImage ==
    [null    |-> FALSE,
     size    |-> [k \in Axes |-> 0],
     spacing |-> [k \in Axes |-> 1],
     index   |-> [k \in Axes |-> 0],
     meta    |-> NoValue]

\* A null input pointer.
NoImage == [EmptyImage EXCEPT !.null = TRUE]

GeometryImages ==
    [null    : {FALSE},
     size    : [Axes -> 1..MaxSize],
     spacing : [Axes -> SpacingValues],
     index   : [Axes -> IndexValues],
     meta    : {NoValue}]

MetaDataImages ==
    [null    : {FALSE},
     size    : {[k \in Axes |-> MaxSize]},
     spacing : {[k \in Axes |-> 1]},
     index   : {[k \in Axes |-> 0]},
     meta    : {NoValue} \cup {<<v>> : v \in 1..MaxMeta}]

\* Superclass::GenerateOutputInformation(): the output copies the primary
\* input's region and spacing; the dictionary is not part of that.
CopyInformation(out, primary) ==
    IF primary.null THEN out
    ELSE [out EXCEPT !.size = primary.size,
                     !.spacing = primary.spacing,
                     !.index = primary.index]

OutputSpacing(fixedSpacing, movingSpacing) ==
    [i \in Axes |-> IF fixedSpacing[i] >= movingSpacing[i]
                    THEN fixedSpacing[i] ELSE movingSpacing[i]]

\* The output size taken as the larger input size.
OutputSizeMax(fixedSize, movingSize) ==
    [i \in Axes |-> IF fixedSize[i] >= movingSize[i]
                    THEN fixedSize[i] ELSE movingSize[i]]

OutputSize(fixedSize, movingSize) ==
    [i \in Axes |-> IF fixedSize[i] <= movingSize[i]
                    THEN fixedSize[i] ELSE movingSize[i]]

OutputStartIndex(fixedStartIndex) ==
    [i \in Axes |-> fixedStartIndex[i]]

\* The hook a subclass may override; this class adjusts nothing.
AdjustOutputInformation(geometry) == geometry

\* ExposeMetaData(fixedDic, ...) && ExposeMetaData(movingDic, ...), then
\* EncapsulateMetaData(outputDic, ...): the output's dictionary afterwards.
OutputMetaData(fixedMeta, movingMeta, outputMeta) ==
    IF fixedMeta # NoValue /\ movingMeta # NoValue
    THEN (IF fixedMeta[1] > movingMeta[1] THEN movingMeta ELSE fixedMeta)
    ELSE outputMeta

\* The output after GenerateOutputInformation() with inputs f and m.
GenerateOutputInformationResult(f, m, out) ==
    LET copied == CopyInformation(out, f)
    IN  IF f.null \/ m.null
        THEN copied
        ELSE LET g == AdjustOutputInformation(
                          [spacing |-> OutputSpacing(f.spacing, m.spacing),
                           index   |-> OutputStartIndex(f.index),
                           size    |-> OutputSize(f.size, m.size)])
             IN  [null    |-> FALSE,
                  size    |-> g.size,
                  spacing |-> g.spacing,
                  index   |-> g.index,
                  meta    |-> OutputMetaData(f.meta, m.meta, copied.meta)]

SetFixedImage(fixedImage) ==
    /\ fixed' = fixedImage
    /\ pc' = "modified"
    /\ UNCHANGED <<moving, output>>

SetMovingImage(movingImage) ==
    /\ moving' = movingImage
    /\ pc' = "modified"
    /\ UNCHANGED <<fixed, output>>

GenerateOutputInformation ==
    /\ output' = GenerateOutputInformationResult(fixed, moving, output)
    /\ pc' = "generated"
    /\ UNCHANGED <<fixed, moving>>

\* The region [index, index + size) of an image holds coordinate c.
IsInside(img, c) ==
    \A k \in Axes : img.index[k] <= c[k] /\ c[k] < img.index[k] + img.size[k]

\* The coordinates of an image's region.
RegionCoordinates(img) ==
    LET lo == CHOOSE x \in {img.index[k] : k \in Axes} :
                  \A k \in Axes : x <= img.index[k]
        hi == CHOOSE x \in {img.index[k] + img.size[k] : k \in Axes} :
                  \A k \in Axes : x >= img.index[k] + img.size[k]
    IN  {c \in [Axes -> lo..hi] : IsInside(img, c)}

---------------------------------------------------------------------------
(* The kernel: one output sample.                                          *)

\* maxDist before the square root: size[0]^2 + sum over d >= 1 of size[d]^2/4.
RECURSIVE MaxDistSquaredUpTo(_, _)
MaxDistSquaredUpTo(size, d) ==
    IF d = 0 THEN RInt(size[0] * size[0])
    ELSE RAdd(MaxDistSquaredUpTo(size, d - 1), R(size[d] * size[d], 4))

MaxDistSquared(size) == MaxDistSquaredUpTo(size, VImageDimension - 1)

MaxDist(size) == RSqrt(MaxDistSquared(size))

\* The distance of ind from ind0 on a wrapping axis d >= 1.
WrappedOffset(size, ind0, indx, d) ==
    LET dInd == indx[d] - ind0[d]
    IN  IF dInd >= size[d] \div 2 THEN size[d] - (indx[d] - ind0[d]) ELSE dInd

\* distFrom0 before the square root.
RECURSIVE DistFrom0SquaredUpTo(_, _, _, _)
DistFrom0SquaredUpTo(size, ind0, indx, d) ==
    IF d = 0 THEN (indx[0] - ind0[0]) * (indx[0] - ind0[0])
    ELSE LET dInd == WrappedOffset(size, ind0, indx, d)
         IN  DistFrom0SquaredUpTo(size, ind0, indx, d - 1) + dInd * dInd

DistFrom0Squared(size, ind0, indx) ==
    DistFrom0SquaredUpTo(size, ind0, indx, VImageDimension - 1)

DistFrom0(size, ind0, indx) == RSqrt(RInt(DistFrom0Squared(size, ind0, indx)))

\* c0..c3: the control points scaled by maxDist.
ScaledControlPoints(points, scale) == [i \in 0..3 |-> RMul(points[i], scale)]

\* The factor with the pass band open at its upper end.
FactorOpenPassBand(r, c) ==
    LET oneOverC1minusC0 == RDiv(One, RSub(c[1], c[0]))
        oneOverC3minusC2 == RDiv(One, RSub(c[3], c[2]))
    IN  IF RLt(r, c[0]) THEN Zero
        ELSE IF RGe(r, c[0]) /\ RLt(r, c[1])
             THEN RMul(RSub(r, c[0]), oneOverC1minusC0)
        ELSE IF RGe(r, c[1]) /\ RLt(r, c[2]) THEN One
        ELSE IF RGt(r, c[2]) /\ RLe(r, c[3])
             THEN RMul(RSub(c[3], r), oneOverC3minusC2)
        ELSE Zero

\* The band-pass factor at radius r for scaled control points c.
Factor(r, c) ==
    LET oneOverC1minusC0 == RDiv(One, RSub(c[1], c[0]))
        oneOverC3minusC2 == RDiv(One, RSub(c[3], c[2]))
    IN  IF RLt(r, c[0]) THEN Zero
        ELSE IF RGe(r, c[0]) /\ RLt(r, c[1])
             THEN RMul(RSub(r, c[0]), oneOverC1minusC0)
        ELSE IF RGe(r, c[1]) /\ RLe(r, c[2]) THEN One
        ELSE IF RGt(r, c[2]) /\ RLe(r, c[3])
             THEN RMul(RSub(c[3], r), oneOverC3minusC2)
        ELSE Zero

\* Complex samples are pairs <<real, imag>> of rationals.
ComplexType(re, im) == <<re, im>>

\* real and imag of fixed * conj(moving).
CrossReal(f, m) == RAdd(RMul(f[1], m[1]), RMul(f[2], m[2]))
CrossImag(f, m) == RSub(RMul(f[2], m[1]), RMul(f[1], m[2]))
Magnitude(real, imag) == RSqrt(RAdd(RMul(real, real), RMul(imag, imag)))

\* The sample set without the test of magn.
NormalizedUnguarded(fac, real, imag, magn) ==
    ComplexType(RDiv(RMul(fac, real), magn), RDiv(RMul(fac, imag), magn))

\* The sample outIt.Set receives.
Normalized(fac, real, imag, magn) ==
    IF magn # Zero
    THEN ComplexType(RDiv(RMul(fac, real), magn), RDiv(RMul(fac, imag), magn))
    ELSE ComplexType(Zero, Zero)

\* The output sample at coordinate indx, for an output whose largest possible
\* region is `region`.
OutputSample(region, points, f, m, indx) ==
    LET c     == ScaledControlPoints(points, MaxDist(region.size))
        r     == DistFrom0(region.size, region.index, indx)
        real  == CrossReal(f, m)
        imag  == CrossImag(f, m)
    IN  Normalized(Factor(r, c), real, imag, Magnitude(real, imag))

---------------------------------------------------------------------------
(* The threaded evaluation: workers walk disjoint sub-regions.             *)

Unset == <<>>            \* an output sample no worker has set

\* Sample values the input buffers hold: 0, 1, i, 3+4i.
SampleValues ==
    <<ComplexType(Zero, Zero), ComplexType(One, Zero),
      ComplexType(Zero, One), ComplexType(RInt(3), RInt(4))>>

RECURSIVE Stride(_, _)
Stride(region, k) == IF k = 0 THEN 1 ELSE Stride(region, k - 1) * region.size[k - 1]

NumberOfPixels(region) == Stride(region, VImageDimension)

\* The n-th coordinate a scanline iterator visits in region: axis 0 runs fastest.
CoordinateAt(region, n) ==
    [k \in Axes |-> region.index[k] + ((n \div Stride(region, k)) % region.size[k])]

LinearOffset(region, c) ==
    CHOOSE n \in 0..(NumberOfPixels(region) - 1) : CoordinateAt(region, n) = c

\* Buffer contents over a region: the sample values in rotation from a start.
SampleBuffers(region) ==
    {[c \in RegionCoordinates(region) |->
         SampleValues[((s + LinearOffset(region, c)) % Len(SampleValues)) + 1]] :
     s \in 0..(Len(SampleValues) - 1)}

Region(index, size) == [index |-> index, size |-> size]

\* The two parts of a region cut on axis k after n samples.
LowerPart(region, k, n) == Region(region.index, [region.size EXCEPT ![k] = n])
UpperPart(region, k, n) ==
    Region([region.index EXCEPT ![k] = @ + n], [region.size EXCEPT ![k] = @ - n])

Splits(region) ==
    {<<LowerPart(region, k[1], k[2]), UpperPart(region, k[1], k[2])>> :
        k \in {x \in Axes \X (1..(MaxWidth + MaxHeight)) : x[2] < region.size[x[1]]}}

\* The partitions of a region into one, two or three sub-regions.
Partitions(region) ==
    {<<region>>} \cup Splits(region)
    \cup UNION {{<<p[1]>> \o q : q \in Splits(p[2])} : p \in Splits(region)}
    \cup UNION {{q \o <<p[2]>> : q \in Splits(p[1])} : p \in Splits(region)}

\* The region the kernel measures distances in, taken from the thread's region.
KernelRegionOfThread(largestPossibleRegion, outputRegionForThread) ==
    outputRegionForThread

\* The region the kernel measures distances in:
\* output->GetLargestPossibleRegion().
KernelRegion(largestPossibleRegion, outputRegionForThread) ==
    largestPossibleRegion

\* The sample a worker on outputRegionForThread sets at coordinate c.
ThreadSample(outputRegionForThread, c) ==
    OutputSample(KernelRegion(Region(output.index, output.size), outputRegionForThread),
                 m_BandPassControlPoints, fixedBuf[c], movingBuf[c], c)

\* One pass of the inner loop of worker t: one sample read, computed and set.
DynamicThreadedGenerateData(t) ==
    /\ threads[t].done < NumberOfPixels(threads[t].region)
    /\ LET c == CoordinateAt(threads[t].region, threads[t].done)
       IN  /\ outBuf' = [outBuf EXCEPT ![c] = ThreadSample(threads[t].region, c)]
           /\ writeCount' = [writeCount EXCEPT ![c] = @ + 1]
    /\ threads' = [threads EXCEPT ![t].done = @ + 1]
    /\ UNCHANGED <<fixedBuf, movingBuf>>

---------------------------------------------------------------------------
(* Single evaluations of the radius and of the band-pass factor.           *)

EvaluateRadius ==
    /\ pc = "drawn"
    /\ maxDist' = MaxDist(output.size)
    /\ distFrom0' = DistFrom0(output.size, output.index, ind)
    /\ pc' = "evaluated"
    /\ UNCHANGED <<fixed, moving, output, ind, factor>>

EvaluateFactor ==
    /\ pc = "drawn"
    /\ factor' = Factor(distFrom0, ScaledControlPoints(m_BandPassControlPoints, maxDist))
    /\ pc' = "evaluated"
    /\ UNCHANGED <<fixed, moving, output, ind, maxDist, distFrom0>>

---------------------------------------------------------------------------
(* Specifications.                                                         *)

ImageIdle ==
    /\ fixed = NoImage
    /\ moving = NoImage
    /\ output = EmptyImage
    /\ pc = "constructed"

PixelIdle ==
    /\ ind = [k \in Axes |-> 0]
    /\ maxDist = Zero
    /\ distFrom0 = Zero
    /\ factor = Zero

BufferIdle ==
    /\ fixedBuf = <<>>
    /\ movingBuf = <<>>
    /\ outBuf = <<>>
    /\ writeCount = <<>>
    /\ threads = <<>>

\* One call of the setter on an object holding any control points it can hold.
InitConfig ==
    /\ m_BandPassControlPoints \in StoredPoints
    /\ m_MTime = 0
    /\ lastCall = NoCall
    /\ ImageIdle /\ PixelIdle /\ BufferIdle
NextConfig ==
    \E points \in OfferedPoints :
        SetBandPassControlPoints(points) /\ UNCHANGED <<imageVars, pixelVars, bufferVars>>
SpecConfig == InitConfig /\ [][NextConfig]_vars

\* The output geometry derived from a pair of input geometries.
InitGeometry ==
    /\ ConfigInit /\ PixelIdle /\ BufferIdle
    /\ fixed \in GeometryImages
    /\ moving \in GeometryImages
    /\ output = EmptyImage
    /\ pc = "modified"
NextGeometry ==
    GenerateOutputInformation /\ UNCHANGED <<configVars, pixelVars, bufferVars>>
SpecGeometry == InitGeometry /\ [][NextGeometry]_vars

\* The output metadata over runs and changes of the inputs.
InitMetaData == ConfigInit /\ ImageIdle /\ PixelIdle /\ BufferIdle
otherVars == <<configVars, pixelVars, bufferVars>>
NextMetaData ==
    \/ \E img \in MetaDataImages : SetFixedImage(img) /\ UNCHANGED otherVars
    \/ \E img \in MetaDataImages : SetMovingImage(img) /\ UNCHANGED otherVars
    \/ GenerateOutputInformation /\ UNCHANGED otherVars
SpecMetaData == InitMetaData /\ [][NextMetaData]_vars

\* The radius at one coordinate of an output region.
InitRadius ==
    /\ ConfigInit /\ BufferIdle
    /\ fixed = NoImage /\ moving = NoImage
    /\ output \in [null : {FALSE}, size : [Axes -> 1..MaxExtent],
                   spacing : {[k \in Axes |-> 1]}, index : [Axes -> IndexValues],
                   meta : {NoValue}]
    /\ ind \in RegionCoordinates(output)
    /\ maxDist = Zero /\ distFrom0 = Zero /\ factor = Zero
    /\ pc = "drawn"
NextRadius == EvaluateRadius /\ UNCHANGED <<configVars, bufferVars>>
SpecRadius == InitRadius /\ [][NextRadius]_vars

\* The band-pass factor at one radius.
InitFactor ==
    /\ BufferIdle
    /\ fixed = NoImage /\ moving = NoImage /\ output = EmptyImage
    /\ m_BandPassControlPoints \in StoredPoints
    /\ m_MTime = 0 /\ lastCall = NoCall
    /\ ind = [k \in Axes |-> 0]
    /\ maxDist \in {R(k, 2) : k \in 2..(2 * MaxScale)}
    /\ distFrom0 \in {R(n, 2 * GridDen) : n \in 0..(2 * GridDen * (MaxScale + 1))}
                     \cup {RMul(m_BandPassControlPoints[i], maxDist) : i \in 0..3}
    /\ factor = Zero
    /\ pc = "drawn"
NextFactor == EvaluateFactor /\ UNCHANGED <<configVars, bufferVars>>
SpecFactor == InitFactor /\ [][NextFactor]_vars

\* The threaded evaluation of one output region.
InitThreads ==
    /\ ConfigInit /\ PixelIdle
    /\ fixed = NoImage /\ moving = NoImage
    /\ output \in [null : {FALSE},
                   size : {sz \in [Axes -> 1..(MaxWidth + MaxHeight)] :
                              sz[0] <= MaxWidth /\ \A k \in Axes \ {0} : sz[k] <= MaxHeight},
                   spacing : {[k \in Axes |-> 1]},
                   index : {[k \in Axes |-> i] : i \in IndexValues},
                   meta : {NoValue}]
    /\ pc = "generated"
    /\ fixedBuf \in SampleBuffers(output)
    /\ movingBuf \in SampleBuffers(output)
    /\ outBuf = [c \in RegionCoordinates(output) |-> Unset]
    /\ writeCount = [c \in RegionCoordinates(output) |-> 0]
    /\ \E p \in Partitions(Region(output.index, output.size)) :
           threads = [t \in 1..Len(p) |-> [region |-> p[t], done |-> 0]]
NextThreads ==
    \E t \in DOMAIN threads :
        DynamicThreadedGenerateData(t) /\ UNCHANGED <<configVars, imageVars, pixelVars>>
SpecThreads == InitThreads /\ [][NextThreads]_vars

---------------------------------------------------------------------------
(* The claims.                                                             *)

MinOf(a, b) == IF a <= b THEN a ELSE b
MaxOf(a, b) == IF a >= b THEN a ELSE b

StrictlyIncreasing(p) == RLt(p[0], p[1]) /\ RLt(p[1], p[2]) /\ RLt(p[2], p[3])
IsInvalidTuple(p) == RLt(p[0], Zero) \/ RGt(p[3], One) \/ ~StrictlyIncreasing(p)
IsValidTuple(p) == RLe(Zero, p[0]) /\ StrictlyIncreasing(p) /\ RLe(p[3], One)

\* A step that is a call of the setter.
IsCall == ~lastCall.called /\ lastCall'.called

\* C1: a call of SetBandPassControlPoints with a tuple that has c0 < 0 or
\* c3 > 1 or is not strictly increasing throws, and the stored control points
\* and the modification time after it are those before it, whatever control
\* points were stored.
C1_InvalidTupleRejected ==
    [][(IsCall /\ IsInvalidTuple(lastCall'.points))
          => /\ lastCall'.threw
             /\ m_BandPassControlPoints' = m_BandPassControlPoints
             /\ m_MTime' = m_MTime]_vars

\* An invalid tuple was rejected by an object holding other than the
\* constructor's control points.
C1_Witness ==
    /\ lastCall.called /\ lastCall.threw
    /\ IsInvalidTuple(lastCall.points)
    /\ m_BandPassControlPoints # DefaultBandPassControlPoints

\* C8, as claimed: a call with a tuple 0 <= c0 < c1 < c2 < c3 <= 1 does not
\* throw, leaves exactly that tuple stored and advances the modification time,
\* also when the tuple equals the stored one.
C8_ValidTupleAlwaysModifies ==
    [][(IsCall /\ IsValidTuple(lastCall'.points))
          => /\ ~lastCall'.threw
             /\ m_BandPassControlPoints' = lastCall'.points
             /\ m_MTime' > m_MTime]_vars

\* C8, amended: a call with a tuple 0 <= c0 < c1 < c2 < c3 <= 1 does not throw
\* and leaves exactly that tuple stored; it advances the modification time if
\* and only if the tuple differs from the one stored before.
C8_ValidTupleStored ==
    [][(IsCall /\ IsValidTuple(lastCall'.points))
          => /\ ~lastCall'.threw
             /\ m_BandPassControlPoints' = lastCall'.points
             /\ IF lastCall'.points # m_BandPassControlPoints
                THEN m_MTime' > m_MTime
                ELSE m_MTime' = m_MTime]_vars

\* A valid tuple equal to the stored one was set, and the modification time
\* stayed.
C8_Witness ==
    /\ lastCall.called /\ ~lastCall.threw
    /\ IsValidTuple(lastCall.points)
    /\ m_BandPassControlPoints = lastCall.points
    /\ m_MTime = 0

\* C2: after GenerateOutputInformation the output region is no larger than
\* either input on any axis, and every coordinate of the output region lies in
\* the fixed input's region and in the moving input's region.
C2_OutputRegionInsideBothInputs ==
    pc = "generated" =>
        /\ \A k \in Axes : /\ output.size[k] <= fixed.size[k]
                           /\ output.size[k] <= moving.size[k]
        /\ \A c \in RegionCoordinates(output) : IsInside(fixed, c) /\ IsInside(moving, c)

\* C3: after GenerateOutputInformation, on every axis the output size is the
\* smaller input size, the output spacing the larger input spacing, and the
\* output start index the fixed input's.
C3_OutputGeometry ==
    pc = "generated" =>
        \A k \in Axes :
            /\ output.size[k] = MinOf(fixed.size[k], moving.size[k])
            /\ output.spacing[k] = MaxOf(fixed.spacing[k], moving.spacing[k])
            /\ output.index[k] = fixed.index[k]

\* The documented example at a smaller scale: the moving input is half as wide
\* and twice as coarse on axis 0.
C3_Witness ==
    /\ pc = "generated"
    /\ fixed.size = [k \in Axes |-> 2] /\ fixed.spacing = [k \in Axes |-> 1]
    /\ moving.size = [k \in Axes |-> IF k = 0 THEN 1 ELSE 2]
    /\ moving.spacing = [k \in Axes |-> IF k = 0 THEN 2 ELSE 1]
    /\ fixed.index = [k \in Axes |-> 1]
    /\ output.size = moving.size /\ output.spacing = moving.spacing
    /\ output.index = fixed.index

\* C6: after a run of GenerateOutputInformation with both inputs set, the
\* output carries min(fixedValue, movingValue) when both inputs carry
\* FFT_Actual_RealImage_Size, and no value when an input lacks it; also on a
\* run after the inputs changed.
C6_OutputMetaData ==
    (pc = "generated" /\ ~fixed.null /\ ~moving.null) =>
        IF fixed.meta # NoValue /\ moving.meta # NoValue
        THEN output.meta = <<MinOf(fixed.meta[1], moving.meta[1])>>
        ELSE output.meta = NoValue

\* The coordinate that differs from indx by the wrap transform on axis k.
WrapPartner(region, indx, k) ==
    [indx EXCEPT ![k] = region.index[k] + region.size[k] - (indx[k] - region.index[k])]

\* C4: two coordinates of the output region that differ only on an axis k > 0,
\* by offsets raw and size[k] - raw, have the same radius.
C4_WrapSymmetry ==
    pc = "evaluated" =>
        \A k \in Axes \ {0} :
            IsInside(output, WrapPartner(output, ind, k))
                => DistFrom0(output.size, output.index, WrapPartner(output, ind, k))
                       = distFrom0

\* C9: the radius at every coordinate of the output region lies in
\* [0, maxDist]; in squares, d0^2 + sum d_k^2 <= size[0]^2 + sum size[k]^2 / 4.
C9_RadiusWithinMaxDist ==
    pc = "evaluated" =>
        /\ RLe(Zero, distFrom0)
        /\ RLe(distFrom0, maxDist)
        /\ RLe(RInt(DistFrom0Squared(output.size, output.index, ind)),
               MaxDistSquared(output.size))

\* The four-point piecewise-linear function of the radius.
PiecewiseLinear(r, c) ==
    CASE RLt(r, c[0])                  -> Zero
      [] RLe(c[0], r) /\ RLt(r, c[1])  -> RDiv(RSub(r, c[0]), RSub(c[1], c[0]))
      [] RLe(c[1], r) /\ RLe(r, c[2])  -> One
      [] RLt(c[2], r) /\ RLe(r, c[3])  -> RDiv(RSub(c[3], r), RSub(c[3], c[2]))
      [] RGt(r, c[3])                  -> Zero

\* C10: for stored control points scaled by maxDist > 0 and a radius r >= 0,
\* the factor is the four-point piecewise-linear function of r, lies in [0, 1],
\* is 1 at r = c1 and r = c2, and 0 at r = c0 and r = c3.
C10_BandPassFactor ==
    pc = "evaluated" =>
        LET c == ScaledControlPoints(m_BandPassControlPoints, maxDist)
        IN  /\ factor = PiecewiseLinear(distFrom0, c)
            /\ RLe(Zero, factor) /\ RLe(factor, One)
            /\ (distFrom0 = c[1] \/ distFrom0 = c[2]) => factor = One
            /\ (distFrom0 = c[0] \/ distFrom0 = c[3]) => factor = Zero

\* The factor was evaluated at r = c2 for the constructor's control points.
C10_Witness ==
    /\ pc = "evaluated"
    /\ m_BandPassControlPoints = DefaultBandPassControlPoints
    /\ distFrom0 = RMul(m_BandPassControlPoints[2], maxDist)
    /\ factor = One

AllDone == \A t \in DOMAIN threads : threads[t].done = NumberOfPixels(threads[t].region)

\* The sample at c when the whole output region is one sub-region.
SingleRegionSample(c) == ThreadSample(Region(output.index, output.size), c)

\* C5: for every partition of the output region and every interleaving of the
\* workers, no coordinate is written twice, a written coordinate holds the
\* sample the evaluation of the whole region as one sub-region gives it, every
\* coordinate has been written once when all workers are done, and no step
\* changes an input.
C5_PartitionIndependence ==
    /\ [](\A c \in DOMAIN outBuf :
             /\ writeCount[c] <= 1
             /\ writeCount[c] = 1 => outBuf[c] = SingleRegionSample(c)
             /\ writeCount[c] = 0 => outBuf[c] = Unset
             /\ AllDone => writeCount[c] = 1)
    /\ [][fixedBuf' = fixedBuf /\ movingBuf' = movingBuf]_vars

\* Three workers have finished a region of four samples.
C5_Witness ==
    /\ Len(threads) = 3 /\ AllDone
    /\ Cardinality(DOMAIN outBuf) = 4
    /\ \A c \in DOMAIN outBuf : writeCount[c] = 1

IsZeroSample(z) == z = ComplexType(Zero, Zero)

\* The band-pass factor at a coordinate of the threaded evaluation.
FactorAt(c) ==
    Factor(DistFrom0(output.size, output.index, c),
           ScaledControlPoints(m_BandPassControlPoints, MaxDist(output.size)))

\* C7: at every coordinate where the fixed or the moving sample is 0+0i the
\* kernel sets the output sample to (0, 0): not a quotient by the zero
\* magnitude, whatever the band-pass factor there.
C7_ZeroSampleGivesZero ==
    \A c \in DOMAIN outBuf :
        (writeCount[c] > 0 /\ (IsZeroSample(fixedBuf[c]) \/ IsZeroSample(movingBuf[c])))
            => outBuf[c] = ComplexType(Zero, Zero)

\* A coordinate with a zero moving sample, a non-zero fixed sample and a
\* non-zero band-pass factor was set to (0, 0).
C7_Witness ==
    \E c \in DOMAIN outBuf :
        /\ writeCount[c] > 0
        /\ IsZeroSample(movingBuf[c]) /\ ~IsZeroSample(fixedBuf[c])
        /\ FactorAt(c) # Zero
        /\ outBuf[c] = ComplexType(Zero, Zero)

============================================================================
